---- MODULE Spec2Model ----
(***************************************************************************)
(* A model of espiox's memory subsystem, its thread-per-call bridge to the *)
(* asynchronous durable store and model client, and the token streaming    *)
(* pipeline (src/src/context/memory.rs, src/src/agent/mod.rs).             *)
(*                                                                         *)
(* A "caller" is an OS thread that calls the synchronous API.  A "worker"  *)
(* is the thread a bridged call spawns with std::thread::spawn; it owns a  *)
(* fresh tokio Runtime and drives one asynchronous operation.  The durable *)
(* store (the persistence layer) and the model client are external: their  *)
(* handlers are modelled by their effect, and each call of one may fail    *)
(* (an injected fault, at most MaxFaults per behaviour).                   *)
(***************************************************************************)
EXTENDS Integers, Sequences, FiniteSets, TLC

\* ------------------------------------------------------------------ bounds
NumNames == 1
MaxWorkers == 2
MaxSaveLen == 1
MaxFaults == 1
MaxCacheLen == 2
MaxBuffer == 4
MaxTokens == 52
MaxChunks == 2
MaxFiles == 2

\* The OS threads that call the API.  Two are what thread-local state and a
\* race between callers need; the agent lives on "main".
Callers == { "main", "other" }
Names == 1..NumNames

\* The JSON values of the messages a caller saves: {"role": .., "content": ..}.
Msgs ==
  { [role |-> "user", content |-> "a"], [role |-> "assistant", content |-> "b"] }

RECURSIVE SeqsUpTo(_, _)
SeqsUpTo(S, n) ==
  IF n = 0 THEN { <<>> }
  ELSE LET shorter == SeqsUpTo(S, n - 1)
       IN shorter \cup { Append(s, x) : s \in { t \in shorter : Len(t) = n - 1 }, x \in S }

SaveInputs == SeqsUpTo(Msgs, MaxSaveLen)

IsPrefix(s, t) == Len(s) <= Len(t) /\ SubSeq(t, 1, Len(s)) = s

\* ------------------------------------------------------------------- state
VARIABLES
  dbThreads,   \* durable store: name -> number of thread rows of that name
  dbMessages,  \* durable store: name -> the persisted message rows, in write order
  faults,      \* number of faults the store and the model client injected so far
  workers,     \* the worker threads spawned so far, in spawn order
  pc,          \* caller -> "idle" | "join" (blocked in JoinHandle::join) | "panicked"
  savedLog,    \* name -> the messages of the durable saves that have returned, in call order
  cache,       \* caller thread -> its thread-local CACHED_MEMORY
  last,        \* the latest return of a load or save that ran on the calling thread alone
  saved,       \* caller -> its latest Cache save: the cache before it and the messages
  buffer,      \* the agent's context.buffer
  agentMem,    \* the agent's context.memory
  dbFiles,     \* durable store: the file rows, in write order
  dbChunks,    \* durable store: the file chunk rows, in write order
  fileOp,      \* caller -> its latest store_file_tup call and how far it got
  callerPool,  \* caller thread -> whether its thread-local DATA_POOL is initialised
  sPc,         \* the forwarding task: "none" | "pull" | "send" | "done" | "failed"
  produced,    \* tokens the model stream has yielded; they are numbered 1, 2, ..
  srcEnded,    \* the model stream has signalled its end
  held,        \* the token the forwarding task is sending (0: none)
  chan,        \* the tokens in the channel
  rxOpen,      \* the consumer holds the receiver handle
  received,    \* the tokens next() has returned, in order
  gotEnd       \* next() has returned None

storeVars == << dbThreads, dbMessages, faults >>
cacheVars == << cache, last, saved >>
agentVars == << buffer, agentMem >>
fileVars == << dbFiles, dbChunks, fileOp, callerPool >>
streamVars == << sPc, produced, srcEnded, held, chan, rxOpen, received, gotEnd >>

vars == << storeVars, workers, pc, savedLog, cacheVars, agentVars, streamVars, fileVars >>

\* ---------------------------------------------------------- Memory variants
\* enum Memory { Remember(LoadedMemory), Forget }
\* enum LoadedMemory { LongTerm(String), Cache }
Forget == [tag |-> "Forget", name |-> 0]
RememberCache == [tag |-> "Cache", name |-> 0]
RememberLongTerm(n) == [tag |-> "LongTerm", name |-> n]

LongTermMemories == { RememberLongTerm(n) : n \in Names }

\* ------------------------------------------------------------- conversions
\* serde_json::Value::to_string of a JSON string value: its JSON text (the
\* string in quotes), not the bare string.
ValueToString(s) == [json |-> s]

\* CreateMessageBody { thread_name, role, content } built by store_messages.
CreateMessageBody(n, m) ==
  [thread_name |-> n, role |-> ValueToString(m.role), content |-> ValueToString(m.content)]

\* MessageModelSql::coerce_to_value: a persisted row back to the Message shape.
CoerceToValue(row) == [role |-> row.role.json, content |-> row.content.json]

RECURSIVE MapCoerce(_)
MapCoerce(rows) ==
  IF rows = <<>> THEN <<>>
  ELSE <<CoerceToValue(Head(rows))>> \o MapCoerce(Tail(rows))

\* ---------------------------------------------------------------- workers
NoResult == [ok |-> FALSE, val |-> <<>>]

\* thread::spawn(move || { let rt = Runtime::new().unwrap(); rt.block_on(..) })
NewWorker(kind, c, n, payload, joined, startPc) ==
  [ kind     |-> kind,      \* "load" | "save" | "threads" | "prompt" | "function_prompt"
    caller   |-> c,         \* the thread that spawned it
    name     |-> n,         \* the durable thread name it works on (0: none)
    pc       |-> startPc,   \* its position; "done" and "panicked" are terminated
    pending  |-> payload,   \* save: the messages not yet written; prompt: the buffer clone
    written  |-> 0,         \* save: the number of messages written so far
    result   |-> NoResult,  \* what the closure returned or sent
    joined   |-> joined,    \* whether the spawning call keeps and joins the JoinHandle
    returned |-> IF joined THEN "pending" ELSE "value",
                            \* what the spawning call has handed its caller so far:
                            \* "pending" (still blocked), "value", "err", "panic"
    faulted  |-> FALSE,     \* whether an injected fault hit it
    failedAt |-> "none",    \* the position at which it panicked
    pool     |-> FALSE,     \* whether it has initialised its thread-local DATA_POOL
    created  |-> FALSE,     \* load: whether its post_thread went through
    missing  |-> FALSE,     \* load: whether get_thread answered RowNotFound
    expect   |-> IF kind = "load" THEN savedLog[n] ELSE <<>> ]
                            \* load: the messages saved by calls that returned before it

Terminated(w) == workers[w].pc \in { "done", "panicked" }

WorkerIds == 1..Len(workers)

\* The worker a blocked caller is joining.
JoinTarget(c) ==
  CHOOSE w \in WorkerIds :
    workers[w].caller = c /\ workers[w].joined /\ workers[w].returned = "pending"

NoCall == [caller |-> "none", op |-> "none", mem |-> "none", val |-> <<>>]

NoSave == [any |-> FALSE, before |-> <<>>, msgs |-> <<>>]

\* file_tup: (CreateFileBody, Vec<CreateFileChunkBody>); the chunks of a file
\* are numbered in the order of the vector.
Files == { "f" }

ChunkInputs == { [i \in 1..k |-> i] : k \in 0..MaxChunks }

NoFileOp ==
  [ state    |-> "none",   \* "none" | "file" | "chunks" | "done" | "panicked"
    file     |-> "none",   \* file_tup.0
    chunks   |-> <<>>,     \* file_tup.1
    filed    |-> FALSE,    \* whether post_file went through
    pending  |-> <<>>,     \* the chunks the loop has not yet written
    written  |-> <<>>,     \* the chunks it has written, in write order
    onCaller |-> FALSE ]   \* whether it built a Runtime on the calling thread and blocked on it

Memories == LongTermMemories \cup { RememberCache, Forget }

Init ==
  \* The store outlives the process: a thread may exist from an earlier run.
  /\ dbThreads \in [Names -> {0, 1}]
  /\ dbMessages = [n \in Names |-> <<>>]
  /\ faults = 0
  /\ workers = <<>>
  /\ pc = [c \in Callers |-> "idle"]
  /\ savedLog = [n \in Names |-> <<>>]
  /\ cache = [c \in Callers |-> <<>>]
  /\ last = NoCall
  /\ saved = [c \in Callers |-> NoSave]
  /\ buffer = <<>>
  \* The agent was built on a memory whose load spawns no worker.
  /\ agentMem \in { RememberCache, Forget }
  /\ dbFiles = <<>>
  /\ dbChunks = <<>>
  /\ fileOp = [c \in Callers |-> NoFileOp]
  /\ callerPool = [c \in Callers |-> FALSE]
  /\ sPc = "none"
  /\ produced = 0
  /\ srcEnded = FALSE
  /\ held = 0
  /\ chan = <<>>
  /\ rxOpen = FALSE
  /\ received = <<>>
  /\ gotEnd = FALSE

\* ------------------------------------------------------- the durable store
\* The persistence layer's handlers, by their effect.  `fail` is the handler's
\* outcome: TRUE is an error the store injects (connection, query).
FaultChoices == IF faults < MaxFaults THEN BOOLEAN ELSE { FALSE }

Inject(fail) == faults' = IF fail THEN faults + 1 ELSE faults

\* handlers::threads::get_all_threads: the names that have a thread row.
RECURSIVE ThreadList(_)
ThreadList(k) ==
  IF k = 0 THEN <<>>
  ELSE ThreadList(k - 1) \o (IF dbThreads[k] > 0 THEN <<k>> ELSE <<>>)

SetWorker(w, rec) == workers' = [workers EXCEPT ![w] = rec]

Return(c, op, mem, val) ==
  last' = [caller |-> c, op |-> op, mem |-> mem.tag, val |-> val]

\* --------------------------------------------- LoadedMemory::get_messages
\* LongTerm: spawn the worker and block in join().
GetMessagesLongTerm(c, n) ==
  /\ Len(workers) < MaxWorkers
  /\ workers' = Append(workers, NewWorker("load", c, n, <<>>, TRUE, "get_thread"))
  /\ pc' = [pc EXCEPT ![c] = "join"]
  /\ UNCHANGED << storeVars, savedLog, cacheVars, agentVars, streamVars, fileVars >>

\* A get_messages that takes the content out of the cache.
GetMessagesCacheDraining(c) ==
  /\ Return(c, "load", RememberCache, cache[c])
  /\ cache' = [cache EXCEPT ![c] = <<>>]
  /\ UNCHANGED << storeVars, workers, pc, savedLog, saved, agentVars, streamVars, fileVars >>

\* Cache: a copy of the calling thread's CACHED_MEMORY.
GetMessagesCache(c) ==
  /\ Return(c, "load", RememberCache, cache[c])
  /\ UNCHANGED << storeVars, workers, pc, savedLog, cache, saved, agentVars, streamVars, fileVars >>

\* Memory::load
Load(c, mem) ==
  /\ pc[c] = "idle"
  /\ CASE mem.tag = "LongTerm" -> GetMessagesLongTerm(c, mem.name)
       [] mem.tag = "Cache" -> GetMessagesCache(c)
       [] mem.tag = "Forget" ->
            /\ Return(c, "load", Forget, <<>>)
            /\ UNCHANGED << storeVars, workers, pc, savedLog, cache, saved,
                            agentVars, streamVars, fileVars >>

\* A get_thread whose every error, not RowNotFound alone, is answered by going
\* on to create the thread.
LoadGetThreadRecoveringAll(w) ==
  /\ w \in WorkerIds
  /\ workers[w].kind = "load"
  /\ workers[w].pc = "get_thread"
  /\ \E fail \in FaultChoices :
       /\ Inject(fail)
       /\ IF fail
            THEN SetWorker(w, [workers[w] EXCEPT
                   !.pc = "post_thread", !.faulted = TRUE, !.failedAt = "get_thread",
                   !.pool = TRUE])
            ELSE IF dbThreads[workers[w].name] = 0
                   THEN SetWorker(w, [workers[w] EXCEPT
                          !.pc = "post_thread", !.missing = TRUE, !.pool = TRUE])
                   ELSE SetWorker(w, [workers[w] EXCEPT !.pc = "get_messages", !.pool = TRUE])
  /\ UNCHANGED << dbThreads, dbMessages, pc, savedLog, cacheVars, agentVars, streamVars, fileVars >>

\* The worker of get_messages: handlers::threads::get_thread.
LoadGetThread(w) ==
  /\ w \in WorkerIds
  /\ workers[w].kind = "load"
  /\ workers[w].pc = "get_thread"
  /\ \E fail \in FaultChoices :
       /\ Inject(fail)
       /\ IF fail
            THEN \* any error but RowNotFound: panic!("Error getting thread")
                 SetWorker(w, [workers[w] EXCEPT
                   !.pc = "panicked", !.faulted = TRUE, !.failedAt = "get_thread",
                   !.pool = TRUE])
            ELSE IF dbThreads[workers[w].name] = 0
                   THEN \* Err(RowNotFound): go on to create the thread
                        SetWorker(w, [workers[w] EXCEPT
                          !.pc = "post_thread", !.missing = TRUE, !.pool = TRUE])
                   ELSE SetWorker(w, [workers[w] EXCEPT !.pc = "get_messages", !.pool = TRUE])
  /\ UNCHANGED << dbThreads, dbMessages, pc, savedLog, cacheVars, agentVars, streamVars, fileVars >>

\* assert!(handlers::threads::post_thread(&pool, &threadname).await.is_ok()).
\* The store's answer to a post of a name that exists by now (another load
\* created it since get_thread) is not decided by this code: the store may add
\* another row ("row"), refuse the duplicate ("refused") or keep the one it
\* has ("kept").
LoadPostThread(w) ==
  /\ w \in WorkerIds
  /\ workers[w].kind = "load"
  /\ workers[w].pc = "post_thread"
  /\ LET n == workers[w].name
         answers == IF dbThreads[n] = 0 THEN { "row" } ELSE { "row", "refused", "kept" }
     IN \E fail \in FaultChoices, answer \in answers :
          /\ Inject(fail)
          /\ fail => answer = "row"
          /\ IF fail
               THEN /\ SetWorker(w, [workers[w] EXCEPT
                         !.pc = "panicked", !.faulted = TRUE, !.failedAt = "post_thread"])
                    /\ UNCHANGED dbThreads
               ELSE IF answer = "refused"
                      THEN \* post_thread is an Err: the assert! panics
                           /\ SetWorker(w, [workers[w] EXCEPT
                                !.pc = "panicked", !.failedAt = "post_thread"])
                           /\ UNCHANGED dbThreads
                      ELSE /\ dbThreads' = [dbThreads EXCEPT ![n] = IF answer = "row" THEN @ + 1 ELSE @]
                           /\ SetWorker(w, [workers[w] EXCEPT
                                !.pc = "get_messages", !.created = TRUE])
  /\ UNCHANGED << dbMessages, pc, savedLog, cacheVars, agentVars, streamVars, fileVars >>

\* messages::get_messages(..).await.expect(..), then coerce_to_value on each row.
LoadGetMessages(w) ==
  /\ w \in WorkerIds
  /\ workers[w].kind = "load"
  /\ workers[w].pc = "get_messages"
  /\ \E fail \in FaultChoices :
       /\ Inject(fail)
       /\ IF fail
            THEN SetWorker(w, [workers[w] EXCEPT
                   !.pc = "panicked", !.faulted = TRUE, !.failedAt = "get_messages"])
            ELSE SetWorker(w, [workers[w] EXCEPT
                   !.pc = "done",
                   !.result = [ok |-> TRUE, val |-> MapCoerce(dbMessages[workers[w].name])]])
  /\ UNCHANGED << dbThreads, dbMessages, pc, savedLog, cacheVars, agentVars, streamVars, fileVars >>

\* -------------------------------------------- LoadedMemory::store_messages
\* LongTerm: spawn the worker; the JoinHandle is dropped and the call returns.
\* A save is issued through a Context that was built on (and so has loaded)
\* its memory, hence on a thread name the store already holds.
StoreMessagesLongTerm(c, n, msgs) ==
  /\ Len(workers) < MaxWorkers
  /\ dbThreads[n] > 0
  /\ workers' = Append(workers, NewWorker("save", c, n, msgs, FALSE, "post"))
  /\ savedLog' = [savedLog EXCEPT ![n] = @ \o msgs]
  /\ UNCHANGED << storeVars, pc, cacheVars, agentVars, streamVars, fileVars >>

\* A store_messages that replaces the cache's content instead of appending to it.
StoreMessagesCacheReplacing(c, msgs) ==
  /\ Len(cache[c]) + Len(msgs) <= MaxCacheLen
  /\ cache' = [cache EXCEPT ![c] = msgs]
  /\ saved' = [saved EXCEPT ![c] = [any |-> TRUE, before |-> cache[c], msgs |-> msgs]]
  /\ Return(c, "save", RememberCache, <<>>)
  /\ UNCHANGED << storeVars, workers, pc, savedLog, agentVars, streamVars, fileVars >>

\* A store_messages that puts the messages in front of the cache's content.
StoreMessagesCachePrepending(c, msgs) ==
  /\ Len(cache[c]) + Len(msgs) <= MaxCacheLen
  /\ cache' = [cache EXCEPT ![c] = msgs \o @]
  /\ saved' = [saved EXCEPT ![c] = [any |-> TRUE, before |-> cache[c], msgs |-> msgs]]
  /\ Return(c, "save", RememberCache, <<>>)
  /\ UNCHANGED << storeVars, workers, pc, savedLog, agentVars, streamVars, fileVars >>

\* Cache: st_mem.borrow_mut().append(messages.to_owned().as_mut())
StoreMessagesCache(c, msgs) ==
  /\ Len(cache[c]) + Len(msgs) <= MaxCacheLen
  /\ cache' = [cache EXCEPT ![c] = @ \o msgs]
  /\ saved' = [saved EXCEPT ![c] = [any |-> TRUE, before |-> cache[c], msgs |-> msgs]]
  /\ Return(c, "save", RememberCache, <<>>)
  /\ UNCHANGED << storeVars, workers, pc, savedLog, agentVars, streamVars, fileVars >>

\* A save that writes the messages to the cache in Forget mode too.
SaveForgetCaching(c, mem, msgs) ==
  /\ pc[c] = "idle"
  /\ CASE mem.tag = "LongTerm" -> StoreMessagesLongTerm(c, mem.name, msgs)
       [] mem.tag = "Cache" -> StoreMessagesCache(c, msgs)
       [] mem.tag = "Forget" ->
            /\ Len(cache[c]) + Len(msgs) <= MaxCacheLen
            /\ cache' = [cache EXCEPT ![c] = @ \o msgs]
            /\ Return(c, "save", Forget, <<>>)
            /\ UNCHANGED << storeVars, workers, pc, savedLog, saved,
                            agentVars, streamVars, fileVars >>

\* Memory::save
Save(c, mem, msgs) ==
  /\ pc[c] = "idle"
  /\ CASE mem.tag = "LongTerm" -> StoreMessagesLongTerm(c, mem.name, msgs)
       [] mem.tag = "Cache" -> StoreMessagesCache(c, msgs)
       [] mem.tag = "Forget" ->
            /\ Return(c, "save", Forget, <<>>)
            /\ UNCHANGED << storeVars, workers, pc, savedLog, cache, saved,
                            agentVars, streamVars, fileVars >>

\* The worker of store_messages, one turn of `for m in messages.iter()`:
\* messages::post_message(..).await.expect(..).
SavePostMessage(w) ==
  /\ w \in WorkerIds
  /\ workers[w].kind = "save"
  /\ workers[w].pc = "post"
  /\ workers[w].pending # <<>>
  /\ LET n == workers[w].name
         m == Head(workers[w].pending)
     IN \E fail \in FaultChoices :
          /\ Inject(fail)
          /\ IF fail
               THEN /\ SetWorker(w, [workers[w] EXCEPT
                         !.pc = "panicked", !.faulted = TRUE, !.failedAt = "post",
                         !.pool = TRUE])
                    /\ UNCHANGED dbMessages
               ELSE /\ dbMessages' = [dbMessages EXCEPT ![n] = Append(@, CreateMessageBody(n, m))]
                    /\ SetWorker(w, [workers[w] EXCEPT
                         !.pending = Tail(@), !.written = @ + 1, !.pool = TRUE])
  /\ UNCHANGED << dbThreads, pc, savedLog, cacheVars, agentVars, streamVars, fileVars >>

\* The loop is over: block_on returns and the worker thread ends.
SaveFinish(w) ==
  /\ w \in WorkerIds
  /\ workers[w].kind = "save"
  /\ workers[w].pc = "post"
  /\ workers[w].pending = <<>>
  /\ SetWorker(w, [workers[w] EXCEPT !.pc = "done", !.result = [ok |-> TRUE, val |-> <<>>]])
  /\ UNCHANGED << storeVars, pc, savedLog, cacheVars, agentVars, streamVars, fileVars >>

\* -------------------------------------------- LoadedMemory::store_file_tup
\* A store_file_tup that goes straight to the chunks and never posts the file.
StoreFileTupChunksOnly(c, lm, file, chunks) ==
  /\ pc[c] = "idle"
  /\ lm.tag = "LongTerm"
  /\ Len(dbFiles) < MaxFiles
  /\ pc' = [pc EXCEPT ![c] = "store_file"]
  /\ callerPool' = [callerPool EXCEPT ![c] = TRUE]
  /\ fileOp' = [fileOp EXCEPT ![c] =
       [NoFileOp EXCEPT !.state = "chunks", !.file = file, !.chunks = chunks,
                        !.pending = chunks, !.onCaller = TRUE]]
  /\ UNCHANGED << storeVars, workers, savedLog, cacheVars, agentVars, streamVars,
                  dbFiles, dbChunks >>

\* Cache: `{}`, the tuple is dropped.  LongTerm: Runtime::new() and the
\* DATA_POOL of the calling thread, then rt.block_on(..) on the calling thread
\* itself: no worker is spawned.
StoreFileTup(c, lm, file, chunks) ==
  /\ pc[c] = "idle"
  /\ CASE lm.tag = "Cache" ->
            /\ Return(c, "store_file", RememberCache, <<>>)
            /\ UNCHANGED << storeVars, workers, pc, savedLog, cache, saved,
                            agentVars, streamVars, fileVars >>
       [] lm.tag = "LongTerm" ->
            /\ Len(dbFiles) < MaxFiles
            /\ pc' = [pc EXCEPT ![c] = "store_file"]
            /\ callerPool' = [callerPool EXCEPT ![c] = TRUE]
            /\ fileOp' = [fileOp EXCEPT ![c] =
                 [NoFileOp EXCEPT !.state = "file", !.file = file, !.chunks = chunks,
                                  !.pending = chunks, !.onCaller = TRUE]]
            /\ UNCHANGED << storeVars, workers, savedLog, cacheVars, agentVars, streamVars,
                            dbFiles, dbChunks >>

\* handlers::file::post_file(pool, file_tup.0).await.expect(..): the expect
\* runs inside block_on on the calling thread, so a failure panics the caller.
StoreFilePostFile(c) ==
  /\ pc[c] = "store_file"
  /\ fileOp[c].state = "file"
  /\ \E fail \in FaultChoices :
       /\ Inject(fail)
       /\ IF fail
            THEN /\ fileOp' = [fileOp EXCEPT ![c].state = "panicked"]
                 /\ pc' = [pc EXCEPT ![c] = "panicked"]
                 /\ UNCHANGED dbFiles
            ELSE /\ dbFiles' = Append(dbFiles, fileOp[c].file)
                 /\ fileOp' = [fileOp EXCEPT ![c].state = "chunks", ![c].filed = TRUE]
                 /\ UNCHANGED pc
  /\ UNCHANGED << dbThreads, dbMessages, workers, savedLog, cacheVars, agentVars,
                  streamVars, dbChunks, callerPool >>

\* One turn of `for chunk in file_tup.1`:
\* handlers::file_chunks::post_file_chunk(pool, chunk).await.expect(..).
StoreFilePostChunk(c) ==
  /\ pc[c] = "store_file"
  /\ fileOp[c].state = "chunks"
  /\ fileOp[c].pending # <<>>
  /\ LET chunk == Head(fileOp[c].pending)
     IN \E fail \in FaultChoices :
          /\ Inject(fail)
          /\ IF fail
               THEN /\ fileOp' = [fileOp EXCEPT ![c].state = "panicked"]
                    /\ pc' = [pc EXCEPT ![c] = "panicked"]
                    /\ UNCHANGED dbChunks
               ELSE /\ dbChunks' = Append(dbChunks, [file |-> fileOp[c].file, chunk |-> chunk])
                    /\ fileOp' = [fileOp EXCEPT ![c].pending = Tail(@),
                                                ![c].written = Append(@, chunk)]
                    /\ UNCHANGED pc
  /\ UNCHANGED << dbThreads, dbMessages, workers, savedLog, cacheVars, agentVars,
                  streamVars, dbFiles, callerPool >>

\* The loop is over: block_on returns and store_file_tup returns ().
StoreFileReturn(c) ==
  /\ pc[c] = "store_file"
  /\ fileOp[c].state = "chunks"
  /\ fileOp[c].pending = <<>>
  /\ fileOp' = [fileOp EXCEPT ![c].state = "done"]
  /\ pc' = [pc EXCEPT ![c] = "idle"]
  /\ UNCHANGED << storeVars, workers, savedLog, cacheVars, agentVars, streamVars,
                  dbFiles, dbChunks, callerPool >>

\* --------------------------------- Memory::get_active_long_term_threads
GetActiveLongTermThreads(c) ==
  /\ pc[c] = "idle"
  /\ Len(workers) < MaxWorkers
  /\ workers' = Append(workers, NewWorker("threads", c, 0, <<>>, TRUE, "query"))
  /\ pc' = [pc EXCEPT ![c] = "join"]
  /\ UNCHANGED << storeVars, savedLog, cacheVars, agentVars, streamVars, fileVars >>

\* Its worker: Ok(threads) => Ok(threads), Err(err) => Err(format!(..)).
ThreadsQuery(w) ==
  /\ w \in WorkerIds
  /\ workers[w].kind = "threads"
  /\ workers[w].pc = "query"
  /\ \E fail \in FaultChoices :
       /\ Inject(fail)
       /\ SetWorker(w, [workers[w] EXCEPT
            !.pc = "done",
            !.faulted = fail,
            !.pool = TRUE,
            !.result = IF fail THEN [ok |-> FALSE, val |-> <<>>]
                       ELSE [ok |-> TRUE, val |-> ThreadList(NumNames)]])
  /\ UNCHANGED << dbThreads, dbMessages, pc, savedLog, cacheVars, agentVars, streamVars, fileVars >>

\* ------------------------------------------------------------------- join
\* .join().expect(..) of get_messages and get_active_long_term_threads: the
\* blocked caller resumes once its worker thread has terminated; a worker that
\* panicked makes the expect panic in the caller.
Join(c) ==
  /\ pc[c] = "join"
  /\ LET w == JoinTarget(c)
     IN /\ workers[w].kind \in { "load", "threads" }
        /\ Terminated(w)
        /\ IF workers[w].pc = "done"
             THEN /\ pc' = [pc EXCEPT ![c] = "idle"]
                  /\ SetWorker(w, [workers[w] EXCEPT
                       !.returned = IF workers[w].result.ok THEN "value" ELSE "err"])
             ELSE /\ pc' = [pc EXCEPT ![c] = "panicked"]
                  /\ SetWorker(w, [workers[w] EXCEPT !.returned = "panic"])
  /\ UNCHANGED << storeVars, savedLog, cacheVars, agentVars, streamVars, fileVars >>

\* ------------------------------------------------------------ specifications
\* The durable store and its bridge: LongTerm memories.
NextDurable ==
  \/ \E c \in Callers, mem \in LongTermMemories : Load(c, mem)
  \/ \E c \in Callers, mem \in LongTermMemories, msgs \in SaveInputs : Save(c, mem, msgs)
  \/ \E c \in Callers : GetActiveLongTermThreads(c)
  \/ \E c \in Callers : Join(c)
  \/ \E w \in 1..MaxWorkers : LoadGetThread(w)
  \/ \E w \in 1..MaxWorkers : LoadPostThread(w)
  \/ \E w \in 1..MaxWorkers : LoadGetMessages(w)
  \/ \E w \in 1..MaxWorkers : SavePostMessage(w)
  \/ \E w \in 1..MaxWorkers : SaveFinish(w)
  \/ \E w \in 1..MaxWorkers : ThreadsQuery(w)

SpecDurable == Init /\ [][NextDurable]_vars

\* The loads of LongTerm memories alone.
NextLoad ==
  \/ \E c \in Callers, mem \in LongTermMemories : Load(c, mem)
  \/ \E c \in Callers : Join(c)
  \/ \E w \in 1..MaxWorkers : LoadGetThread(w)
  \/ \E w \in 1..MaxWorkers : LoadPostThread(w)
  \/ \E w \in 1..MaxWorkers : LoadGetMessages(w)

SpecLoad == Init /\ [][NextLoad]_vars

\* store_file_tup on LongTerm memories.
NextFile ==
  \/ \E c \in Callers, lm \in LongTermMemories, file \in Files, chunks \in ChunkInputs :
       StoreFileTup(c, lm, file, chunks)
  \/ \E c \in Callers : StoreFilePostFile(c)
  \/ \E c \in Callers : StoreFilePostChunk(c)
  \/ \E c \in Callers : StoreFileReturn(c)

SpecFile == Init /\ [][NextFile]_vars

\* The volatile cache and Forget: every call runs on the calling thread alone.
NextCache ==
  \/ \E c \in Callers, mem \in { RememberCache, Forget } : Load(c, mem)
  \/ \E c \in Callers, mem \in { RememberCache, Forget }, msgs \in SaveInputs : Save(c, mem, msgs)
  \/ \E c \in Callers, file \in Files, chunks \in ChunkInputs :
       StoreFileTup(c, RememberCache, file, chunks)

SpecCache == Init /\ [][NextCache]_vars

\* ------------------------------------------------------------------ Agent
\* The agent is owned by one thread (&mut self): "main".
Inputs == { "a", "c" }

Completions == { "b" }

\* MessageVector::push_std(role, content)
PushStd(buf, role, content) == Append(buf, [role |-> role, content |-> content])

\* A prompt that clones the buffer before it pushes the user message.
PromptSpawnCloneFirst(kind, input) ==
  /\ pc["main"] = "idle"
  /\ Len(workers) < MaxWorkers
  /\ Len(buffer) + 2 <= MaxBuffer
  /\ buffer' = PushStd(buffer, "user", input)
  /\ workers' = Append(workers, NewWorker(kind, "main", 0, buffer, TRUE, "completion"))
  /\ pc' = [pc EXCEPT !["main"] = "join"]
  /\ UNCHANGED << storeVars, savedLog, cacheVars, agentMem, streamVars, fileVars >>

\* Agent::prompt / Agent::function_prompt up to the join: push the user
\* message, clone the buffer, spawn the worker with the clone and an mpsc
\* sender, and block in join().
PromptSpawn(kind, input) ==
  /\ pc["main"] = "idle"
  /\ Len(workers) < MaxWorkers
  /\ Len(buffer) + 2 <= MaxBuffer
  /\ buffer' = PushStd(buffer, "user", input)
  /\ workers' = Append(workers, NewWorker(kind, "main", 0, buffer', TRUE, "completion"))
  /\ pc' = [pc EXCEPT !["main"] = "join"]
  /\ UNCHANGED << storeVars, savedLog, cacheVars, agentMem, streamVars, fileVars >>

Prompt(input) == PromptSpawn("prompt", input)

FunctionPrompt(input) == PromptSpawn("function_prompt", input)

\* The worker: gpt.completion(..).await.expect(..), then tx.send(result).unwrap().
\* A failed completion panics the worker before anything is sent.
Completion(w) ==
  /\ w \in WorkerIds
  /\ workers[w].kind \in { "prompt", "function_prompt" }
  /\ workers[w].pc = "completion"
  /\ \E fail \in FaultChoices, text \in Completions :
       /\ Inject(fail)
       /\ IF fail
            THEN SetWorker(w, [workers[w] EXCEPT
                   !.pc = "panicked", !.faulted = TRUE, !.failedAt = "completion"])
            ELSE SetWorker(w, [workers[w] EXCEPT
                   !.pc = "done", !.result = [ok |-> TRUE, val |-> text]])
  /\ UNCHANGED << dbThreads, dbMessages, pc, savedLog, cacheVars, agentVars, streamVars, fileVars >>

\* Agent::prompt after the join: .expect("Failed to join thread"), then
\* rx.recv().unwrap().parse().expect(..), push the assistant message, return.
PromptJoin ==
  /\ pc["main"] = "join"
  /\ LET w == JoinTarget("main")
     IN /\ workers[w].kind = "prompt"
        /\ Terminated(w)
        /\ IF workers[w].pc = "done"
             THEN /\ buffer' = PushStd(buffer, "assistant", workers[w].result.val)
                  /\ pc' = [pc EXCEPT !["main"] = "idle"]
                  /\ SetWorker(w, [workers[w] EXCEPT !.returned = "value"])
                  /\ last' = [caller |-> "main", op |-> "prompt", mem |-> "none",
                              val |-> workers[w].result.val]
             ELSE /\ pc' = [pc EXCEPT !["main"] = "panicked"]
                  /\ SetWorker(w, [workers[w] EXCEPT !.returned = "panic"])
                  /\ UNCHANGED << buffer, last >>
  /\ UNCHANGED << storeVars, savedLog, cache, saved, agentMem, streamVars, fileVars >>

\* Agent::function_prompt after the join: rx.recv().unwrap(), then
\* function_response.parse_fn().expect(..); nothing is pushed to the buffer.
FunctionPromptJoin ==
  /\ pc["main"] = "join"
  /\ LET w == JoinTarget("main")
     IN /\ workers[w].kind = "function_prompt"
        /\ Terminated(w)
        /\ \E parsed \in BOOLEAN :
             IF workers[w].pc = "done" /\ parsed
               THEN /\ pc' = [pc EXCEPT !["main"] = "idle"]
                    /\ SetWorker(w, [workers[w] EXCEPT !.returned = "value"])
               ELSE /\ pc' = [pc EXCEPT !["main"] = "panicked"]
                    /\ SetWorker(w, [workers[w] EXCEPT !.returned = "panic"])
  /\ UNCHANGED << storeVars, savedLog, cacheVars, agentVars, streamVars, fileVars >>

NextAgent ==
  \/ \E input \in Inputs : Prompt(input)
  \/ \E input \in Inputs : FunctionPrompt(input)
  \/ \E w \in 1..MaxWorkers : Completion(w)
  \/ PromptJoin
  \/ FunctionPromptJoin

SpecAgent == Init /\ [][NextAgent]_vars

\* ------------------------------------------------------ Agent::switch_mem
\* Agent::format_to_buffer: push_std("user", ..) of the formatted text.
FormatToBuffer(input) ==
  /\ pc["main"] = "idle"
  /\ Len(buffer) < MaxBuffer
  /\ buffer' = PushStd(buffer, "user", input)
  /\ UNCHANGED << storeVars, workers, pc, savedLog, cacheVars, agentMem, streamVars, fileVars >>

\* Context::save_buffer: memory.save(buffer).  The worker a save on `mem`
\* spawns (none unless LongTerm), and the calling thread's cache after it.
SaveBufferWorkers(mem, buf) ==
  IF mem.tag = "LongTerm"
    THEN << NewWorker("save", "main", mem.name, buf, FALSE, "post") >>
    ELSE << >>

SaveBufferCache(mem, buf) ==
  IF mem.tag = "Cache" THEN cache["main"] \o buf ELSE cache["main"]

\* Context::build(memory, env): the new context's buffer is memory.load().
\* The worker that load spawns (none unless LongTerm).
BuildWorkers(mem, log) ==
  IF mem.tag = "LongTerm"
    THEN << [NewWorker("load", "main", mem.name, <<>>, TRUE, "get_thread")
               EXCEPT !.expect = log[mem.name]] >>
    ELSE << >>

\* self.context.save_buffer(); self.context = Context::build(memory, env).
\* The save returns at once (a LongTerm save leaves its worker detached); a
\* build on Cache or Forget loads on the calling thread, a build on LongTerm
\* blocks in the join of its load.
SwitchMem(new) ==
  /\ pc["main"] = "idle"
  /\ LET old == agentMem
         saveW == SaveBufferWorkers(old, buffer)
         cacheAfter == SaveBufferCache(old, buffer)
         logAfter == IF old.tag = "LongTerm"
                       THEN [savedLog EXCEPT ![old.name] = @ \o buffer]
                       ELSE savedLog
         loadW == BuildWorkers(new, logAfter)
     IN /\ Len(workers) + Len(saveW) + Len(loadW) <= MaxWorkers
        /\ Len(cacheAfter) <= MaxCacheLen
        /\ workers' = workers \o saveW \o loadW
        /\ savedLog' = logAfter
        /\ cache' = [cache EXCEPT !["main"] = cacheAfter]
        /\ saved' = IF old.tag = "Cache"
                      THEN [saved EXCEPT !["main"] =
                             [any |-> TRUE, before |-> cache["main"], msgs |-> buffer]]
                      ELSE saved
        /\ CASE new.tag = "LongTerm" ->
                  /\ pc' = [pc EXCEPT !["main"] = "switch"]
                  /\ last' = IF old.tag = "LongTerm" THEN last
                             ELSE [caller |-> "main", op |-> "save", mem |-> old.tag, val |-> <<>>]
                  /\ UNCHANGED agentVars
             [] new.tag = "Cache" ->
                  /\ buffer' = cacheAfter
                  /\ agentMem' = new
                  /\ Return("main", "load", new, cacheAfter)
                  /\ UNCHANGED pc
             [] new.tag = "Forget" ->
                  /\ buffer' = <<>>
                  /\ agentMem' = new
                  /\ Return("main", "load", new, <<>>)
                  /\ UNCHANGED pc
  /\ UNCHANGED << storeVars, streamVars, fileVars >>

\* The join of the build's load returns: the new context holds what it loaded.
SwitchMemBuilt ==
  /\ pc["main"] = "switch"
  /\ LET w == JoinTarget("main")
     IN /\ workers[w].kind = "load"
        /\ Terminated(w)
        /\ IF workers[w].pc = "done"
             THEN /\ buffer' = workers[w].result.val
                  /\ agentMem' = RememberLongTerm(workers[w].name)
                  /\ pc' = [pc EXCEPT !["main"] = "idle"]
                  /\ SetWorker(w, [workers[w] EXCEPT !.returned = "value"])
             ELSE /\ pc' = [pc EXCEPT !["main"] = "panicked"]
                  /\ SetWorker(w, [workers[w] EXCEPT !.returned = "panic"])
                  /\ UNCHANGED agentVars
  /\ UNCHANGED << storeVars, savedLog, cacheVars, streamVars, fileVars >>

NextSwitch ==
  \/ \E input \in Inputs : FormatToBuffer(input)
  \/ \E new \in Memories : SwitchMem(new)
  \/ SwitchMemBuilt
  \/ \E w \in 1..MaxWorkers : LoadGetThread(w)
  \/ \E w \in 1..MaxWorkers : LoadPostThread(w)
  \/ \E w \in 1..MaxWorkers : LoadGetMessages(w)
  \/ \E w \in 1..MaxWorkers : SavePostMessage(w)
  \/ \E w \in 1..MaxWorkers : SaveFinish(w)

SpecSwitch == Init /\ [][NextSwitch]_vars

\* ------------------------------------------------- streaming completions
\* A channel created one slot too large.
ChannelCapacityOffByOne == 50 + 1

\* tokio::sync::mpsc::channel(50)
ChannelCapacity == 50

\* A stream_prompt that does not hand the sender to the forwarding task: the
\* sender is dropped when stream_prompt returns and nothing is ever forwarded.
StreamPromptSenderDropped(input) ==
  /\ pc["main"] = "idle"
  /\ sPc = "none"
  /\ Len(buffer) < MaxBuffer
  /\ buffer' = PushStd(buffer, "user", input)
  /\ sPc' = "done"
  /\ rxOpen' = TRUE
  /\ chan' = <<>>
  /\ UNCHANGED << storeVars, workers, pc, savedLog, cacheVars, agentMem,
                  produced, srcEnded, held, received, gotEnd, fileVars >>

\* Agent::stream_prompt: push the user message, await the model's stream
\* (.expect(..) panics the caller when it cannot be opened), create the
\* bounded channel, spawn the forwarding task with the stream and the sender,
\* and return the handle that owns the receiver.
StreamPrompt(input) ==
  /\ pc["main"] = "idle"
  /\ sPc = "none"
  /\ Len(buffer) < MaxBuffer
  /\ buffer' = PushStd(buffer, "user", input)
  /\ \E fail \in FaultChoices :
       /\ Inject(fail)
       /\ IF fail
            THEN /\ pc' = [pc EXCEPT !["main"] = "panicked"]
                 /\ UNCHANGED << sPc, rxOpen, chan >>
            ELSE /\ sPc' = "pull"
                 /\ rxOpen' = TRUE
                 /\ chan' = <<>>
                 /\ UNCHANGED pc
  /\ UNCHANGED << dbThreads, dbMessages, workers, savedLog, cacheVars, agentMem,
                  produced, srcEnded, held, received, gotEnd, fileVars >>

\* The forwarding task, its pull: the next item of the model's stream, a
\* token or the end of the stream; on the end it stops and drops the sender.
TaskPull ==
  /\ sPc = "pull"
  /\ \/ /\ produced < MaxTokens
        /\ produced' = produced + 1
        /\ held' = produced + 1
        /\ sPc' = "send"
        /\ UNCHANGED srcEnded
     \/ /\ srcEnded' = TRUE
        /\ sPc' = "done"
        /\ UNCHANGED << produced, held >>
  /\ UNCHANGED << storeVars, workers, pc, savedLog, cacheVars, agentVars,
                  chan, rxOpen, received, gotEnd, fileVars >>

\* A forwarding task whose send does not notice that the receiver is gone: it
\* stays suspended in the send.
TaskSendIgnoringClose ==
  /\ sPc = "send"
  /\ rxOpen
  /\ Len(chan) < ChannelCapacity
  /\ chan' = Append(chan, held)
  /\ held' = 0
  /\ sPc' = "pull"
  /\ UNCHANGED << storeVars, workers, pc, savedLog, cacheVars, agentVars,
                  produced, srcEnded, rxOpen, received, gotEnd, fileVars >>

\* The forwarding task, its send into the bounded channel: an error once the
\* receiver is gone (the task stops, silently); the token enqueued when there
\* is room; no step while the channel is full (the send is suspended).
TaskSend ==
  /\ sPc = "send"
  /\ IF ~rxOpen
       THEN /\ sPc' = "done"
            /\ held' = 0
            /\ UNCHANGED chan
       ELSE /\ Len(chan) < ChannelCapacity
            /\ chan' = Append(chan, held)
            /\ held' = 0
            /\ sPc' = "pull"
  /\ UNCHANGED << storeVars, workers, pc, savedLog, cacheVars, agentVars,
                  produced, srcEnded, rxOpen, received, gotEnd, fileVars >>

\* CompletionReceiverHandler's next(): the oldest token of the channel; None
\* once the channel is empty and the sender is dropped; suspended otherwise.
HandleNext ==
  /\ rxOpen
  /\ ~gotEnd
  /\ IF chan # <<>>
       THEN /\ received' = Append(received, Head(chan))
            /\ chan' = Tail(chan)
            /\ UNCHANGED gotEnd
       ELSE /\ sPc = "done"
            /\ gotEnd' = TRUE
            /\ UNCHANGED << received, chan >>
  /\ UNCHANGED << storeVars, workers, pc, savedLog, cacheVars, agentVars,
                  sPc, produced, srcEnded, held, rxOpen, fileVars >>

\* The consumer drops the handle: the receiver closes and what the channel
\* still holds is discarded with it.
DropHandle ==
  /\ rxOpen
  /\ rxOpen' = FALSE
  /\ chan' = <<>>
  /\ UNCHANGED << storeVars, workers, pc, savedLog, cacheVars, agentVars,
                  sPc, produced, srcEnded, held, received, gotEnd, fileVars >>

NextStream ==
  \/ \E input \in Inputs : StreamPrompt(input)
  \/ TaskPull
  \/ TaskSend
  \/ HandleNext
  \/ DropHandle

SpecStream == Init /\ [][NextStream]_vars

\* The runtime keeps polling a task that can run.
FairSpecStream == SpecStream /\ WF_vars(TaskPull) /\ WF_vars(TaskSend)

\* ================================================================= claims
RECURSIVE IsSubseq(_, _)
IsSubseq(s, t) ==
  IF s = <<>> THEN TRUE
  ELSE IF t = <<>> THEN FALSE
  ELSE IF Head(s) = Head(t) THEN IsSubseq(Tail(s), Tail(t))
  ELSE IsSubseq(s, Tail(t))

Iota(n) == [i \in 1..n |-> i]

\* C1: every bridged call blocks its calling thread until its worker has
\* finished the operation and the worker thread has terminated: while a worker
\* is still running (or still has writes pending), the call that spawned it has
\* not returned to its caller.
C1_CallBlocksUntilWorkerEnds ==
  \A w \in WorkerIds : ~Terminated(w) => workers[w].returned = "pending"

\* C2: a load of a durable thread issued after saves to that thread have
\* returned yields all the messages of those saves, in the order they were
\* saved (when no store fault was injected).
C2_LoadYieldsSavedInOrder ==
  faults = 0 =>
    \A w \in WorkerIds :
      (workers[w].kind = "load" /\ workers[w].pc = "done")
        => IsSubseq(workers[w].expect, workers[w].result.val)

\* C3 as stated: a load on the Cache backend that follows a save on the same
\* thread returns exactly the messages of that save.
C3_LoadReturnsExactlySaved ==
  (last.op = "load" /\ last.mem = "Cache" /\ saved[last.caller].any)
    => last.val = saved[last.caller].msgs

\* C3 as amended: a load on the Cache backend that follows a save on the same
\* thread returns what the cache held before that save followed by exactly the
\* messages of that save, in call order.
C3_LoadReturnsCacheThenSaved ==
  (last.op = "load" /\ last.mem = "Cache" /\ saved[last.caller].any)
    => last.val = saved[last.caller].before \o saved[last.caller].msgs

C3_Witness ==
  /\ last.op = "load"
  /\ last.mem = "Cache"
  /\ saved[last.caller].any
  /\ saved[last.caller].before # <<>>
  /\ saved[last.caller].msgs # <<>>

\* C4: the successive next() calls return exactly the tokens the model stream
\* produced, in production order (none duplicated, dropped or reordered), and
\* return None only after the stream has ended and its last token was returned.
C4_TokensInOrderThenEnd ==
  /\ received = Iota(Len(received))
  /\ Len(received) <= produced
  /\ gotEnd => (srcEnded /\ Len(received) = produced)

C4_Witness == gotEnd /\ Len(received) >= 3

\* C5: once the consumer has dropped the handle while the forwarding task is
\* running, the task eventually terminates, and it never ends in an error.
C5_DropEndsTaskSilently ==
  /\ [](sPc # "failed")
  /\ ((sPc \in { "pull", "send" } /\ ~rxOpen) ~> (sPc = "done"))

C5_Witness == sPc = "done" /\ ~rxOpen /\ ~srcEnded /\ produced > 0 /\ ~gotEnd

C7_FailureNeverReturnsValue ==
  \A w \in WorkerIds :
    /\ workers[w].pc = "panicked" => workers[w].returned \in { "pending", "panic" }
    /\ (workers[w].pc = "done" /\ ~workers[w].result.ok)
         => workers[w].returned \in { "pending", "err" }

\* C8: when a write of a durable save fails, the save call ends in a failure
\* for its caller, and the messages after the failed one stay unwritten.
C8_SaveFailureSurfaced ==
  \A w \in WorkerIds :
    (workers[w].kind = "save" /\ workers[w].faulted)
      => /\ workers[w].returned # "value"
         /\ workers[w].pc = "panicked"
         /\ workers[w].pending # <<>>

\* C9: for two saves a thread issues one after the other on the same thread
\* name, every write of the first is persisted before any write of the second.
C9_SavesDoNotInterleave ==
  \A v \in WorkerIds, w \in WorkerIds :
    ( /\ v < w
      /\ workers[v].kind = "save" /\ workers[w].kind = "save"
      /\ workers[v].caller = workers[w].caller
      /\ workers[v].name = workers[w].name
      /\ workers[w].written > 0 )
      => (workers[v].pending = <<>> \/ workers[v].pc = "panicked")

\* C10: no thread name is created more than once, and a load that found its
\* thread missing (and met no store fault) does not fail.
C10_ThreadCreatedOnce ==
  /\ \A n \in Names : dbThreads[n] <= 1
  /\ \A w \in WorkerIds :
       (workers[w].kind = "load" /\ workers[w].missing /\ ~workers[w].faulted)
         => workers[w].pc # "panicked"

\* C11: in a load of a durable thread only the "not found" answer of the thread
\* fetch is recovered, by creating the thread: a load creates a thread only
\* after that answer, and goes on after it only once the thread is created.
\* Any other failure of the thread fetch ends the worker there: it has created
\* no thread, fetched no messages and produced no result, and the load hands
\* its caller a failure, never a value.
C11_OnlyNotFoundRecovered ==
  \A w \in WorkerIds :
    workers[w].kind = "load" =>
      /\ workers[w].created => workers[w].missing
      /\ (workers[w].missing /\ workers[w].pc \in { "get_messages", "done" })
           => workers[w].created
      /\ workers[w].failedAt = "get_thread" =>
           /\ workers[w].pc = "panicked"
           /\ ~workers[w].created
           /\ ~workers[w].missing
           /\ workers[w].result = NoResult
           /\ workers[w].returned \in { "pending", "panic" }

C11_Witness ==
  \E v \in WorkerIds :
    /\ workers[v].kind = "load" /\ workers[v].failedAt = "get_thread"
    /\ workers[v].returned = "panic"
    /\ dbThreads[workers[v].name] = 0
    /\ dbMessages[workers[v].name] = <<>>

\* C12: no operation that does durable-store or model I/O creates a runtime
\* on, or blocks on one on, the calling thread: each runs on a worker thread
\* spawned for it.
C12_NoRuntimeOnCallingThread ==
  \A c \in Callers : ~fileOp[c].onCaller /\ pc[c] # "store_file"

\* C13: switch_mem saves the current buffer through the active backend and
\* only then rebinds: once the new context is built, the save of the old buffer
\* is complete: every message of it has been written to the old backend
\* (when no store fault was injected).
C13_SaveCompleteWhenRebound ==
  (faults = 0 /\ pc["main"] = "idle") =>
    \A w \in WorkerIds :
      (workers[w].kind = "save" /\ workers[w].caller = "main")
        => workers[w].pending = <<>>

\* C14: a prompt pushes the user message with the input and hands its worker
\* a clone of the buffer taken after that push; a prompt that succeeds returns
\* with the buffer equal to that clone (the buffer before the call and the
\* user message) followed by the assistant message with the completion, and
\* returns that completion.
C14_PromptAppendsUserThenAssistant ==
  [][ /\ (Len(workers') = Len(workers) + 1 /\ workers'[Len(workers')].kind = "prompt")
          => /\ \E input \in Inputs :
                  buffer' = buffer \o << [role |-> "user", content |-> input] >>
             /\ workers'[Len(workers')].pending = buffer'
      /\ \A w \in WorkerIds :
           ( /\ workers[w].kind = "prompt"
             /\ workers[w].returned = "pending"
             /\ workers'[w].returned = "value" )
             => /\ workers[w].result.ok
                /\ buffer' = workers[w].pending \o
                     << [role |-> "assistant", content |-> workers[w].result.val] >>
                /\ last'.op = "prompt"
                /\ last'.val = buffer'[Len(buffer')].content ]_vars

C14_Witness ==
  \E w \in WorkerIds :
    /\ workers[w].kind = "prompt"
    /\ workers[w].returned = "value"
    /\ last.op = "prompt"
    /\ Len(buffer) = 4
    /\ buffer[Len(buffer)].role = "assistant"
    /\ buffer[Len(buffer) - 1].role = "user"

\* C15: in Forget mode no backend is read or written: a load returns the
\* empty sequence, and a load or a save leaves the cache of every thread and
\* the durable store unchanged and starts no worker.
C15_ForgetTouchesNoBackend ==
  [][ (last' # last /\ last'.mem = "Forget")
        => /\ cache' = cache
           /\ dbThreads' = dbThreads
           /\ dbMessages' = dbMessages
           /\ workers' = workers
           /\ last'.op = "load" => last'.val = <<>> ]_vars

C15_Witness ==
  /\ last.mem = "Forget"
  /\ last.op = "save"
  /\ cache[last.caller] # <<>>

\* C16: a store_file on the durable store persists the file before any of its
\* chunks, persists the chunks one at a time in the order given, and stops at
\* the first write that fails; that failure reaches the caller, and the call
\* returns normally only with the file and all its chunks persisted.
C16_FileThenChunksInOrder ==
  \A c \in Callers :
    LET f == fileOp[c]
    IN /\ f.written \o f.pending = f.chunks
       /\ f.written # <<>> => f.filed
       /\ f.state = "file" => ~f.filed
       /\ f.state = "panicked" =>
            /\ pc[c] = "panicked"
            /\ f.filed => f.pending # <<>>
       /\ f.state = "done" => (f.filed /\ f.pending = <<>>)
       /\ (f.state \in { "file", "chunks" }) => pc[c] = "store_file"

C16_Witness ==
  \E c \in Callers :
    /\ fileOp[c].state = "panicked"
    /\ Len(fileOp[c].written) = 1
    /\ Len(fileOp[c].pending) = 1
    /\ \E d \in Callers : fileOp[d].state = "done" /\ Len(fileOp[d].written) = 2

C18_AtMostOnePool ==
  Cardinality({ w \in WorkerIds : workers[w].pool })
    + Cardinality({ c \in Callers : callerPool[c] }) <= 1

\* C20: the cache of a thread changes only through a save on the Cache backend
\* made on that thread, and only by growing at its end: across every
\* operation the content before is a prefix of the content after; load,
\* store_file and the Forget-mode operations leave it unchanged, and so does
\* every operation of another thread.
C20_CacheOnlyGrowsBySave ==
  [][ \A c \in Callers :
        /\ IsPrefix(cache[c], cache'[c])
        /\ cache'[c] # cache[c]
             => (last'.caller = c /\ last'.op = "save" /\ last'.mem = "Cache") ]_vars

C20_Witness ==
  /\ last.op = "store_file"
  /\ last.mem = "Cache"
  /\ Len(cache[last.caller]) = MaxCacheLen
  /\ \E d \in Callers : d # last.caller /\ cache[d] # <<>> /\ cache[d] # cache[last.caller]

====
